---- MODULE Spec2Model ----
(***************************************************************************)
(* A model of torch-ngp's dataset ingestion: main.py builds an option      *)
(* object from the command line and constructs nerf.provider.NeRFDataset,  *)
(* whose __init__ detects the manifest schema, assembles the manifest,     *)
(* selects the frames of the split, loads every frame's pose and image,    *)
(* stacks them, computes the camera radius and shows the poses.            *)
(*                                                                         *)
(* __init__ is straight-line code; it is cut into steps at its own         *)
(* statements, with pc the position inside it.  An exception ends the load *)
(* in pc = "failed" with err the exception's class.  Pose entries, scale   *)
(* and offset are integers (the code's float32 rounding is not modelled).  *)
(***************************************************************************)
EXTENDS Integers, Sequences, FiniteSets, TLC

VARIABLES
    root,       \* names of the *.json files in the dataset root directory
    disk,       \* image number -> what the image file on disk holds
    pc,         \* position in main.py / NeRFDataset.__init__
    err,        \* class of the exception that ended the load, "" if none
    opt,        \* the option object handed to NeRFDataset
    type,       \* the split selector
    scale,      \* self.scale
    offset,     \* self.offset
    mode,       \* self.mode
    reads,      \* the open() calls on manifests so far: path and parsed document
    pending,    \* glob result still to be opened (Blender, selector all)
    transform,  \* the assembled manifest
    H,          \* self.H
    W,          \* self.W
    frames,     \* the frame list the loop walks
    pair,       \* f0, f1 of the COLMAP test split
    i,          \* 1-based position of the per-frame loop
    poses,      \* self.poses
    images,     \* self.images
    warnings,   \* the paths printed as 'Warning: ... does not exist'
    radius,     \* self.radius
    shown       \* what visualize_pose was called with

vars == <<root, disk, pc, err, opt, type, scale, offset, mode, reads, pending,
          transform, H, W, frames, pair, i, poses, images, warnings, radius, shown>>

\* ---------------------------------------------------------------- bounds
\* most frames a manifest file lists
MaxFrames == 2

\* ---------------------------------------------------------------- values
\* Python's None / an attribute not yet assigned, and a present value
None == [set |-> FALSE]
Some(x) == [set |-> TRUE, v |-> x]

Types == {"train", "val", "test", "trainval", "all"}

\* Root directories the loads run on.
Roots ==
    { {},
      {"transforms_val.json"},
      {"transforms.json"},
      {"transforms.json", "transforms_train.json"},
      {"transforms_train.json"},
      {"transforms_train.json", "transforms_val.json"},
      {"transforms_train.json", "transform_train.json"} }

\* What an image file can hold: nothing (no such file), bytes that do not
\* decode, or an image of shape <<height, width, channels>>.
Missing == [kind |-> "missing"]
Corrupt == [kind |-> "corrupt"]
Image(shape) == [kind |-> "image", shape |-> shape]
Shapes == { <<1, 1, 3>>, <<2, 1, 3>>, <<2, 1, 4>> }
Contents == {Missing, Corrupt} \cup {Image(s) : s \in Shapes}

\* The h/w a manifest may declare: neither, h alone, or both.
Declared == { [h |-> None, w |-> None], [h |-> Some(2), w |-> None],
              [h |-> Some(2), w |-> Some(1)] }

\* Frame k of a manifest.  COLMAP manifests write image paths with their
\* extension; Blender manifests write odd frames without one.  Frame k of
\* every manifest names image k of the disk; the transform matrices differ
\* from frame to frame and from manifest to manifest.
Tag(name) ==
    CASE name = "transforms.json" -> 0
      [] name = "transforms_train.json" -> 1
      [] name = "transforms_val.json" -> 2
      [] OTHER -> 3

Ext(name, k) ==
    IF name = "transforms.json" THEN ".jpg"
    ELSE IF k % 2 = 1 THEN "" ELSE ".png"

Matrix(name, k) ==
    << <<0, 0 - 1, 0, k>>,
       <<1, 0, 0, 0 - Tag(name)>>,
       <<0, 0, 1, 2 * k + Tag(name)>>,
       <<0, 0, 0, 1>> >>

Frame(name, k) ==
    [file_path |-> [stem |-> k, ext |-> Ext(name, k)],
     transform_matrix |-> Matrix(name, k)]

\* The documents a manifest file may hold.
Documents(name) ==
    { [h |-> d.h, w |-> d.w, frames |-> [k \in 1..n |-> Frame(name, k)]] :
        d \in Declared, n \in 0..MaxFrames }

\* The option objects: the one main.py parses (path only) and one a caller
\* fills completely.
MainOpt == [path |-> "root"]
FullOpts == { [path |-> "root", scale |-> 2, offset |-> <<1, 0 - 2, 0>>] }

\* ---------------------------------------------------------------- helpers
\* (variant: the offset added before the scaling)
nerf_matrix_to_ngp_ShiftFirst(pose, s, off) ==
    [r \in 1..4 |->
        [c \in 1..4 |->
            IF r <= 3 /\ c = 4 THEN (pose[r][c] + off[r]) * s ELSE pose[r][c]]]

\* nerf_matrix_to_ngp: pose[:3, 3] = pose[:3, 3] * scale + offset
nerf_matrix_to_ngp(pose, s, off) ==
    [r \in 1..4 |->
        [c \in 1..4 |->
            IF r <= 3 /\ c = 4 THEN pose[r][c] * s + off[r] ELSE pose[r][c]]]

\* f_path of a frame: Blender paths whose basename has no '.' get '.png'
ResolvePath(m, file_path) ==
    IF m = "blender" /\ file_path.ext = ""
    THEN [file_path EXCEPT !.ext = file_path.ext \o ".png"]
    ELSE file_path

\* What the file at f_path holds.  Image files on disk carry an extension,
\* so a path without one names no file.
FileAt(f_path) ==
    IF f_path.ext = "" THEN Missing ELSE disk[f_path.stem]

\* os.path.exists(f_path)
PathExists(f_path) == FileAt(f_path).kind # "missing"

\* (variant: train drops the last frame instead of the first)
ColmapSplit_DropsLast(fs, t) ==
    CASE t = "train" -> SubSeq(fs, 1, Len(fs) - 1)
      [] t = "val" -> SubSeq(fs, 1, IF Len(fs) < 1 THEN Len(fs) ELSE 1)
      [] OTHER -> fs

\* frames = frames[1:] / frames[:1] of the COLMAP split
ColmapSplit(fs, t) ==
    CASE t = "train" -> SubSeq(fs, 2, Len(fs))
      [] t = "val" -> SubSeq(fs, 1, IF Len(fs) < 1 THEN Len(fs) ELSE 1)
      [] OTHER -> fs

\* (variant: the branch taken for the other mode)
IsColmapTest_WrongMode(m, t) == m = "blender" /\ t = "test"

\* the guard of the COLMAP test-split branch
IsColmapTest(m, t) == m = "colmap" /\ t = "test"

\* the name of the manifest of a single Blender split
SplitManifest(t) == "transform_" \o t \o ".json"

\* cv2.cvtColor: BGR -> RGB for 3 channels, BGRA -> RGBA otherwise
ChannelOrder(shape) == IF shape[3] = 3 THEN "RGB" ELSE "RGBA"

\* cv2.resize(image, (W, H)) when the size differs: the target size, the
\* image's own channel count
Resized(shape, h, w) ==
    IF shape[1] # h \/ shape[2] # w THEN <<h, w, shape[3]>> ELSE shape

\* (variant: either key is enough)
DeclaresSize_Either(doc) == doc.h.set \/ doc.w.set

\* the decision 'h' in transform and 'w' in transform
DeclaresSize(doc) == doc.h.set /\ doc.w.set

\* self.radius: the mean of the norms of the translations, kept as the
\* count and the squared norms it is the mean of the roots of
Radius(ps) ==
    [count |-> Len(ps),
     sqnorms |-> [k \in 1..Len(ps) |->
         ps[k][1][4] * ps[k][1][4] + ps[k][2][4] * ps[k][2][4] + ps[k][3][4] * ps[k][3][4]]]

\* np.stack needs every array to have the same shape
SameShapes(ims) == \A a, b \in 1..Len(ims) : ims[a].shape = ims[b].shape

\* (variant: an empty list stacks to an empty tensor)
StackError_EmptyAllowed(ps, ims) ==
    IF ~ps.set THEN "AttributeError"
    ELSE IF ~SameShapes(ims.v) THEN "ValueError"
    ELSE ""

\* the exception of the two np.stack calls, "" if none: self.poses was never
\* assigned on the COLMAP test path (AttributeError); np.stack rejects an
\* empty list and arrays of different shapes (ValueError)
StackError(ps, ims) ==
    IF ~ps.set THEN "AttributeError"
    ELSE IF Len(ps.v) = 0 \/ ~SameShapes(ims.v) THEN "ValueError"
    ELSE ""

\* (variant: the later document's frames put first)
Extended_Prepends(doc, more) == [doc EXCEPT !.frames = more.frames \o @]

\* transform['frames'].extend(tmp_transform['frames'])
Extended(doc, more) == [doc EXCEPT !.frames = @ \o more.frames]

Fail(e) == pc' = "failed" /\ err' = e

\* ---------------------------------------------------------------- initial state
\* Before the entry point runs: the root directory and the image files are
\* the inputs, and no attribute of the dataset object is assigned yet (opt
\* and type are set by the entry point taken).
Init ==
    /\ root \in Roots
    /\ disk \in [1..MaxFrames -> Contents]
    /\ pc = "start"
    /\ err = ""
    /\ opt = MainOpt
    /\ type = "all"
    /\ scale = None
    /\ offset = None
    /\ mode = "unset"
    /\ reads = <<>>
    /\ pending = <<>>
    /\ transform = None
    /\ H = None
    /\ W = None
    /\ frames = <<>>
    /\ pair = None
    /\ i = 1
    /\ poses = None
    /\ images = None
    /\ warnings = <<>>
    /\ radius = None
    /\ shown = None

\* ---------------------------------------------------------------- entry points
\* main.py: the parser declares the positional argument path alone, and the
\* dataset is built with type="all"
Main ==
    /\ pc = "start"
    /\ opt' = MainOpt
    /\ type' = "all"
    /\ pc' = "options"
    /\ UNCHANGED <<root, disk, err, scale, offset, mode, reads, pending, transform,
                   H, W, frames, pair, i, poses, images, warnings, radius, shown>>

\* NeRFDataset(opt, device, type) built by a caller that fills the options
Construct ==
    /\ pc = "start"
    /\ \E o \in FullOpts, t \in Types :
        /\ opt' = o
        /\ type' = t
    /\ pc' = "options"
    /\ UNCHANGED <<root, disk, err, scale, offset, mode, reads, pending, transform,
                   H, W, frames, pair, i, poses, images, warnings, radius, shown>>

\* ---------------------------------------------------------------- NeRFDataset.__init__
\* self.root_path = opt.path; self.scale = opt.scale; self.offset = opt.offset.
\* An attribute the option object lacks raises AttributeError.
ReadOptions ==
    /\ pc = "options"
    /\ IF {"path", "scale", "offset"} \subseteq DOMAIN opt
       THEN /\ scale' = Some(opt.scale)
            /\ offset' = Some(opt.offset)
            /\ pc' = "detect"
            /\ err' = err
       ELSE /\ Fail("AttributeError")
            /\ UNCHANGED <<scale, offset>>
    /\ UNCHANGED <<root, disk, opt, type, mode, reads, pending, transform,
                   H, W, frames, pair, i, poses, images, warnings, radius, shown>>

\* (variant: the Blender manifest looked for first)
DetectedMode_TrainFirst(files) ==
    IF "transforms_train.json" \in files THEN "blender"
    ELSE IF "transforms.json" \in files THEN "colmap"
    ELSE ""

\* the mode chosen from the files present, "" when neither is
DetectedMode(files) ==
    IF "transforms.json" \in files THEN "colmap"
    ELSE IF "transforms_train.json" \in files THEN "blender"
    ELSE ""

DetectMode ==
    /\ pc = "detect"
    /\ IF DetectedMode(root) # ""
       THEN /\ mode' = DetectedMode(root)
            /\ pc' = "load"
            /\ err' = err
       ELSE /\ Fail("NotImplementedError")
            /\ mode' = mode
    /\ UNCHANGED <<root, disk, opt, type, scale, offset, reads, pending, transform,
                   H, W, frames, pair, i, poses, images, warnings, radius, shown>>

\* open(path) and json.load: the path and, when the file exists, a document
\* it holds
Opened(path, doc) == [path |-> path, doc |-> Some(doc)]
NotFound(path) == [path |-> path, doc |-> None]

\* COLMAP: transforms.json is the manifest
LoadColmap ==
    /\ pc = "load"
    /\ mode = "colmap"
    /\ \E doc \in Documents("transforms.json") :
        /\ reads' = Append(reads, Opened("transforms.json", doc))
        /\ transform' = Some(doc)
    /\ pc' = "size"
    /\ UNCHANGED <<root, disk, err, opt, type, scale, offset, mode, pending,
                   H, W, frames, pair, i, poses, images, warnings, radius, shown>>

\* the orders glob may list a set of files in
Orders(files) ==
    { s \in [1..Cardinality(files) -> files] :
        \A a, b \in 1..Cardinality(files) : a # b => s[a] # s[b] }

\* Blender, selector all: glob the *.json files of the root
GlobAll ==
    /\ pc = "load"
    /\ mode = "blender"
    /\ type = "all"
    /\ \E order \in Orders(root) : pending' = order
    /\ pc' = "glob"
    /\ UNCHANGED <<root, disk, err, opt, type, scale, offset, mode, reads, transform,
                   H, W, frames, pair, i, poses, images, warnings, radius, shown>>

\* one iteration of the loop over transform_paths: the first document is the
\* manifest, the frames of every later one are appended to it
LoadNext ==
    /\ pc = "glob"
    /\ pending # <<>>
    /\ \E doc \in Documents(Head(pending)) :
        /\ reads' = Append(reads, Opened(Head(pending), doc))
        /\ transform' = IF ~transform.set THEN Some(doc)
                        ELSE Some(Extended(transform.v, doc))
    /\ pending' = Tail(pending)
    /\ UNCHANGED <<root, disk, pc, err, opt, type, scale, offset, mode,
                   H, W, frames, pair, i, poses, images, warnings, radius, shown>>

GlobDone ==
    /\ pc = "glob"
    /\ pending = <<>>
    /\ pc' = "size"
    /\ UNCHANGED <<root, disk, err, opt, type, scale, offset, mode, reads, pending,
                   transform, H, W, frames, pair, i, poses, images, warnings, radius, shown>>

\* Blender, selector trainval: transforms_train.json, then the frames of
\* transforms_val.json appended
LoadTrainVal ==
    /\ pc = "load"
    /\ mode = "blender"
    /\ type = "trainval"
    /\ \E train \in Documents("transforms_train.json") :
        IF "transforms_val.json" \in root
        THEN \E val \in Documents("transforms_val.json") :
                /\ reads' = reads \o << Opened("transforms_train.json", train),
                                        Opened("transforms_val.json", val) >>
                /\ transform' = Some(Extended(train, val))
                /\ pc' = "size"
                /\ err' = err
        ELSE /\ reads' = reads \o << Opened("transforms_train.json", train),
                                     NotFound("transforms_val.json") >>
             /\ transform' = Some(train)
             /\ Fail("FileNotFoundError")
    /\ UNCHANGED <<root, disk, opt, type, scale, offset, mode, pending,
                   H, W, frames, pair, i, poses, images, warnings, radius, shown>>

\* Blender, any other selector: the manifest of that split
LoadSplit ==
    /\ pc = "load"
    /\ mode = "blender"
    /\ type \notin {"all", "trainval"}
    /\ IF SplitManifest(type) \in root
       THEN \E doc \in Documents(SplitManifest(type)) :
                /\ reads' = Append(reads, Opened(SplitManifest(type), doc))
                /\ transform' = Some(doc)
                /\ pc' = "size"
                /\ err' = err
       ELSE /\ reads' = Append(reads, NotFound(SplitManifest(type)))
            /\ transform' = transform
            /\ Fail("FileNotFoundError")
    /\ UNCHANGED <<root, disk, opt, type, scale, offset, mode, pending,
                   H, W, frames, pair, i, poses, images, warnings, radius, shown>>

\* load image size: from the manifest when it declares h and w, else later
ImageSize ==
    /\ pc = "size"
    /\ IF DeclaresSize(transform.v)
       THEN /\ H' = transform.v.h
            /\ W' = transform.v.w
       ELSE /\ H' = None
            /\ W' = None
    /\ frames' = transform.v.frames
    /\ pc' = "select"
    /\ UNCHANGED <<root, disk, err, opt, type, scale, offset, mode, reads, pending,
                   transform, pair, i, poses, images, warnings, radius, shown>>

\* for colmap, the interpolated test set (two random frames, nothing more),
\* else the split of the frames and the empty output lists
SelectFrames ==
    /\ pc = "select"
    /\ IF IsColmapTest(mode, type)
       THEN IF Len(frames) < 2
            THEN /\ Fail("ValueError")
                 /\ pair' = pair
            ELSE /\ \E a, b \in 1..Len(frames) :
                        /\ a # b
                        /\ pair' = Some(<<frames[a], frames[b]>>)
                 /\ pc' = "finalize"
                 /\ err' = err
       ELSE /\ pc' = "loop"
            /\ err' = err
            /\ pair' = pair
    /\ frames' = IF ~IsColmapTest(mode, type) /\ mode = "colmap"
                 THEN ColmapSplit(frames, type) ELSE frames
    /\ poses' = IF IsColmapTest(mode, type) THEN poses ELSE Some(<<>>)
    /\ images' = IF IsColmapTest(mode, type) THEN images ELSE Some(<<>>)
    /\ i' = 1
    /\ UNCHANGED <<root, disk, opt, type, scale, offset, mode, reads, pending,
                   transform, H, W, warnings, radius, shown>>

\* the image appended for a file holding an image of the given shape, with
\* the target size h x w
Processed(f_path, shape, h, w) ==
    [src |-> f_path, order |-> ChannelOrder(shape), shape |-> Resized(shape, h, w)]

\* (variant: the pose is appended before the file is looked for)
SkipFrame_KeepsPose ==
    /\ pc = "loop"
    /\ i <= Len(frames)
    /\ LET f_path == ResolvePath(mode, frames[i].file_path)
       IN  /\ ~PathExists(f_path)
           /\ warnings' = Append(warnings, f_path)
    /\ poses' = Some(Append(poses.v,
                 nerf_matrix_to_ngp(frames[i].transform_matrix, scale.v, offset.v)))
    /\ i' = i + 1
    /\ UNCHANGED <<root, disk, pc, err, opt, type, scale, offset, mode, reads, pending,
                   transform, H, W, frames, pair, images, radius, shown>>

\* one iteration of the loop over the frames, on a frame whose file is missing
SkipFrame ==
    /\ pc = "loop"
    /\ i <= Len(frames)
    /\ LET f_path == ResolvePath(mode, frames[i].file_path)
       IN  /\ ~PathExists(f_path)
           /\ warnings' = Append(warnings, f_path)
    /\ i' = i + 1
    /\ UNCHANGED <<root, disk, pc, err, opt, type, scale, offset, mode, reads, pending,
                   transform, H, W, frames, pair, poses, images, radius, shown>>

\* one iteration on a frame whose file exists: pose, image, size, append.
\* cv2.imread returns None for bytes it cannot decode, and image.shape then
\* raises AttributeError.
LoadFrame ==
    /\ pc = "loop"
    /\ i <= Len(frames)
    /\ LET f_path == ResolvePath(mode, frames[i].file_path)
           file == FileAt(f_path)
           pose == nerf_matrix_to_ngp(frames[i].transform_matrix, scale.v, offset.v)
       IN  /\ PathExists(f_path)
           /\ IF file.kind = "corrupt"
              THEN /\ Fail("AttributeError")
                   /\ UNCHANGED <<H, W, poses, images, i>>
              ELSE LET h == IF ~H.set \/ ~W.set THEN Some(file.shape[1]) ELSE H
                       w == IF ~H.set \/ ~W.set THEN Some(file.shape[2]) ELSE W
                   IN  /\ H' = h
                       /\ W' = w
                       /\ poses' = Some(Append(poses.v, pose))
                       /\ images' = Some(Append(images.v,
                                                Processed(f_path, file.shape, h.v, w.v)))
                       /\ i' = i + 1
                       /\ UNCHANGED <<pc, err>>
    /\ UNCHANGED <<root, disk, opt, type, scale, offset, mode, reads, pending,
                   transform, frames, pair, warnings, radius, shown>>

\* the frames are exhausted
LoopDone ==
    /\ pc = "loop"
    /\ i > Len(frames)
    /\ pc' = "finalize"
    /\ UNCHANGED <<root, disk, err, opt, type, scale, offset, mode, reads, pending,
                   transform, H, W, frames, pair, i, poses, images, warnings, radius, shown>>

\* convert to tensors, mean radius, visualize_pose
Finalize ==
    /\ pc = "finalize"
    /\ IF StackError(poses, images) # ""
       THEN /\ Fail(StackError(poses, images))
            /\ UNCHANGED <<radius, shown>>
       ELSE /\ radius' = Some(Radius(poses.v))
            /\ shown' = Some(poses.v)
            /\ pc' = "done"
            /\ err' = err
    /\ UNCHANGED <<root, disk, opt, type, scale, offset, mode, reads, pending,
                   transform, H, W, frames, pair, i, poses, images, warnings>>

Next ==
    \/ Main
    \/ Construct
    \/ ReadOptions
    \/ DetectMode
    \/ LoadColmap
    \/ GlobAll
    \/ LoadNext
    \/ GlobDone
    \/ LoadTrainVal
    \/ LoadSplit
    \/ ImageSize
    \/ SelectFrames
    \/ SkipFrame
    \/ LoadFrame
    \/ LoopDone
    \/ Finalize

Spec == Init /\ [][Next]_vars

\* ---------------------------------------------------------------- properties
\* the load got past reading the options
PastOptions == scale.set

\* the frames of fs[1..n] whose image file exists, in the order of fs
Kept(m, fs, n) ==
    LET keep(f) == PathExists(ResolvePath(m, f.file_path))
    IN  SelectSeq(SubSeq(fs, 1, n), keep)

\* the frames among the first n of the walked list whose image file is missing
LostAmong(n) ==
    { k \in 1..n : ~PathExists(ResolvePath(mode, frames[k].file_path)) }

\* C1: schema detection is a strict priority: transforms.json present gives
\* COLMAP (also next to transforms_train.json), else transforms_train.json
\* present gives Blender, else the load fails with the configuration error
\* before any manifest is read, with no poses, images or radius.
C1_SchemaPriority ==
    (PastOptions /\ pc # "detect") =>
        /\ "transforms.json" \in root => mode = "colmap"
        /\ ("transforms.json" \notin root /\ "transforms_train.json" \in root)
              => mode = "blender"
        /\ ("transforms.json" \notin root /\ "transforms_train.json" \notin root)
              => /\ pc = "failed"
                 /\ err = "NotImplementedError"
                 /\ mode = "unset"
                 /\ reads = <<>>
                 /\ ~poses.set /\ ~images.set /\ ~radius.set /\ ~shown.set

C1_Witness ==
    /\ root = {"transforms.json", "transforms_train.json"}
    /\ mode = "colmap"
    /\ pc = "size"

\* C2: in Blender mode with selector train, val or test the manifest opened
\* is transforms_{selector}.json; with selector train that is the
\* transforms_train.json the mode was detected from, and it is read.
C2_ReadsSplitManifest ==
    (mode = "blender" /\ type \in {"train", "val", "test"} /\ pc # "load") =>
        /\ reads # <<>>
        /\ reads[1].path = "transforms_" \o type \o ".json"
        /\ type = "train" => reads[1].doc.set

\* C3: run from the command line on a root that holds a recognizable
\* manifest, the load does not abort before manifest detection.
C3_CommandLineReachesDetection ==
    (opt = MainOpt /\ DetectedMode(root) # "" /\ pc = "failed") => mode # "unset"

\* C4: after every iteration of the per-frame loop the poses and images are
\* as many as the frames walked so far minus the missing ones, pose k and
\* image k come from the k-th surviving frame in the original order, each
\* missing file has its warning, and a missing file never ends the load;
\* with the loop finished that is N - |M| poses and images.
C4_SkipMissingKeepsAlignment ==
    poses.set =>
        LET n == i - 1
            kept == Kept(mode, frames, n)
            lost == LostAmong(n)
        IN  /\ n <= Len(frames)
            /\ Len(poses.v) = Len(images.v)
            /\ Len(poses.v) = n - Cardinality(lost)
            /\ Len(warnings) = Cardinality(lost)
            /\ Len(kept) = Len(poses.v)
            /\ \A k \in 1..Len(poses.v) :
                /\ poses.v[k][1][4] = kept[k].transform_matrix[1][4] * scale.v + offset.v[1]
                /\ poses.v[k][2][4] = kept[k].transform_matrix[2][4] * scale.v + offset.v[2]
                /\ poses.v[k][3][4] = kept[k].transform_matrix[3][4] * scale.v + offset.v[3]
                /\ images.v[k].src = ResolvePath(mode, kept[k].file_path)
            /\ pc \in {"finalize", "done"} => n = Len(frames)
            /\ (pc = "failed" /\ n < Len(frames))
                  => PathExists(ResolvePath(mode, frames[n + 1].file_path))

C4_Witness ==
    /\ pc = "done"
    /\ Len(frames) = 4
    /\ Len(warnings) = 2
    /\ Len(poses.v) = 2
    /\ images.v[1].src.stem = 2

\* C5: in COLMAP mode the loop walks frames[1:] for train, frames[:1] for val
\* and every frame for all and trainval; the val part followed by the train
\* part is the manifest's frame list.
C5_ColmapSplit ==
    (mode = "colmap" /\ poses.set) =>
        LET full == transform.v.frames
        IN  /\ type = "train" =>
                /\ Len(frames) = (IF Len(full) = 0 THEN 0 ELSE Len(full) - 1)
                /\ \A k \in 1..Len(frames) : frames[k] = full[k + 1]
            /\ type = "val" =>
                /\ Len(frames) = (IF Len(full) = 0 THEN 0 ELSE 1)
                /\ \A k \in 1..Len(frames) : frames[k] = full[k]
            /\ type \in {"all", "trainval"} => frames = full
            /\ ColmapSplit(full, "val") \o ColmapSplit(full, "train") = full

C5_Witness ==
    /\ mode = "colmap"
    /\ type = "train"
    /\ pc = "done"
    /\ Len(transform.v.frames) = 2
    /\ Len(frames) = 1

\* C6: when the per-frame loop ends with no frame kept (an empty frame list,
\* or every image missing), the load fails at finalization with the data
\* error; no radius is computed and the visualizer is not called.
C6_NoFramesNoDataset ==
    (poses.set /\ i > Len(frames) /\ poses.v = <<>>) =>
        /\ pc \in {"loop", "finalize", "failed"}
        /\ pc = "failed" => err = "ValueError"
        /\ ~radius.set
        /\ ~shown.set

C6_Witness ==
    /\ pc = "failed"
    /\ err = "ValueError"
    /\ mode = "colmap"
    /\ type = "val"
    /\ Len(transform.v.frames) = 2
    /\ Len(warnings) = 1

\* C7: in Blender mode with selector trainval the frame list is the frames of
\* transforms_train.json followed by those of transforms_val.json, and the
\* manifest's h/w are those of transforms_train.json.
C7_TrainValConcatenation ==
    (mode = "blender" /\ type = "trainval" /\ pc \notin {"load", "failed"}) =>
        /\ Len(reads) = 2
        /\ reads[1].path = "transforms_train.json"
        /\ reads[2].path = "transforms_val.json"
        /\ LET train == reads[1].doc.v
               val == reads[2].doc.v
           IN  /\ transform.v.frames = train.frames \o val.frames
               /\ Len(transform.v.frames) = Len(train.frames) + Len(val.frames)
               /\ transform.v.h = train.h
               /\ transform.v.w = train.w
               /\ pc # "size" => frames = train.frames \o val.frames

C7_Witness ==
    /\ mode = "blender"
    /\ type = "trainval"
    /\ pc = "done"
    /\ Len(reads[1].doc.v.frames) = 2
    /\ Len(reads[2].doc.v.frames) = 1
    /\ reads[1].doc.v.h # reads[2].doc.v.h

\* multiples of the scale the linearity is checked for
ScaleFactors == 1..3
Zero3 == <<0, 0, 0>>

\* C8: pose normalization changes the three translation entries alone, to
\* translation * scale + offset; with offset 0 a scale k times larger gives a
\* translation k times larger, and an offset shifts the translation by itself.
C8_PoseNormalization ==
    poses.set =>
        LET kept == Kept(mode, frames, i - 1)
        IN  \A k \in 1..Len(poses.v) :
                LET m == kept[k].transform_matrix
                IN  /\ \A r \in 1..4, c \in 1..4 :
                        poses.v[k][r][c] =
                            IF r <= 3 /\ c = 4 THEN m[r][c] * scale.v + offset.v[r]
                            ELSE m[r][c]
                    /\ LET unshifted == nerf_matrix_to_ngp(m, scale.v, Zero3)
                           shifted == nerf_matrix_to_ngp(m, scale.v, offset.v)
                       IN  /\ \A r \in 1..3 : shifted[r][4] = unshifted[r][4] + offset.v[r]
                           /\ \A f \in ScaleFactors :
                                LET scaled == nerf_matrix_to_ngp(m, f * scale.v, Zero3)
                                IN  \A r \in 1..3 : scaled[r][4] = f * unshifted[r][4]

C8_Witness ==
    /\ pc = "done"
    /\ Len(poses.v) = 2
    /\ poses.v[1] # frames[1].transform_matrix
    /\ poses.v[1][1][4] = frames[1].transform_matrix[1][4] * 2 + 1

\* the load got past the image-size step
PastSize ==
    \/ pc \in {"select", "loop", "finalize", "done"}
    \/ pc = "failed" /\ PastOptions /\ err \in {"ValueError", "AttributeError"}

\* the size of H and W in a state: fixed by a manifest that declares both,
\* else unset until the first image is kept and then that image's native
\* size; every kept image has that size
SizesAgree ==
    PastSize =>
        /\ DeclaresSize(transform.v) => (H = transform.v.h /\ W = transform.v.w)
        /\ (~DeclaresSize(transform.v) /\ (~images.set \/ images.v = <<>>))
              => (~H.set /\ ~W.set)
        /\ images.set =>
            /\ (~DeclaresSize(transform.v) /\ images.v # <<>>) =>
                  /\ H = Some(FileAt(images.v[1].src).shape[1])
                  /\ W = Some(FileAt(images.v[1].src).shape[2])
            /\ \A k \in 1..Len(images.v) :
                  /\ images.v[k].shape[1] = H.v
                  /\ images.v[k].shape[2] = W.v

\* C9: H and W are assigned at most once in a load, from the manifest when it
\* declares both and else from the first decoded image, and every image kept
\* has height H and width W.
C9_SizeFixedOnce ==
    [][ /\ (H.set /\ W.set) => (H' = H /\ W' = W)
        /\ SizesAgree' ]_vars

C9_Witness ==
    /\ pc = "done"
    /\ ~DeclaresSize(transform.v)
    /\ Len(images.v) = 2
    /\ FileAt(images.v[2].src).shape # images.v[2].shape
    /\ H = Some(1)

\* C10: in COLMAP mode with selector test the per-frame loop never runs and
\* the load never completes: fewer than two frames fail the pair selection,
\* two or more fail at finalization, with no poses, images, radius or viewer.
C10_ColmapTestNeverLoads ==
    (mode = "colmap" /\ type = "test") =>
        /\ pc \notin {"loop", "done"}
        /\ ~poses.set /\ ~images.set /\ ~radius.set /\ ~shown.set
        /\ warnings = <<>>
        /\ pc = "failed" =>
              \/ err = "ValueError" /\ Len(frames) < 2 /\ ~pair.set
              \/ err = "AttributeError" /\ Len(frames) >= 2 /\ pair.set

C10_Witness ==
    /\ mode = "colmap"
    /\ type = "test"
    /\ pc = "failed"
    /\ err = "AttributeError"
    /\ pair.set

====
